---- MODULE Spec2Model ----
(***************************************************************************)
(* Model of pyforge: the command line entry point (main.rs), the command   *)
(* dispatch (cli/commands/mod.rs), the init subcommand (commands/init.rs)  *)
(* and the error taxonomy with its validation layer (core/error.rs).       *)
(*                                                                         *)
(* Text is modelled by TLA+ strings, one string character per Unicode      *)
(* scalar value, so Len counts characters while Utf8Len counts the bytes   *)
(* that Rust's str::len reports.  Glyphs outside Latin-1 that the program  *)
(* prints are written as bracketed names ([x], [bulb], [rocket], [check]), *)
(* and terminal colour codes are left out of the printed lines.            *)
(***************************************************************************)
EXTENDS Integers, Sequences, FiniteSets, TLC

VARIABLES args, fs, pc, result, stdout, stderr, exitStatus, attempts, log,
          input, output

vars == <<args, fs, pc, result, stdout, stderr, exitStatus, attempts, log,
          input, output>>

(***************************************************************************)
(* Bounds of the model.                                                    *)
(***************************************************************************)
MaxRuns == 2
MaxPad == 52
MaxShort == 2
MaxChain == 2
MaxVerLen == 4

(***************************************************************************)
(* Characters and strings.                                                 *)
(***************************************************************************)
LowerStr == "abcdefghijklmnopqrstuvwxyz"
UpperStr == "ABCDEFGHIJKLMNOPQRSTUVWXYZ"
DigitStr == "0123456789"

Chars(s) == { SubSeq(s, i, i) : i \in 1..Len(s) }

AsciiLower == Chars(LowerStr)
AsciiUpper == Chars(UpperStr)
AsciiDigit == Chars(DigitStr)
AsciiLetter == AsciiLower \cup AsciiUpper
AsciiOther == Chars(" !.'()=<>,:/") \cup {"-", "_"}
Ascii == AsciiLetter \cup AsciiDigit \cup AsciiOther

\* Bytes of the UTF-8 encoding of one character; the characters the model
\* uses outside ASCII lie in U+0080..U+07FF and take two bytes.
Utf8Width(c) == IF c \in Ascii THEN 1 ELSE 2

RECURSIVE Utf8Len(_)
Utf8Len(s) == IF s = "" THEN 0 ELSE Utf8Width(Head(s)) + Utf8Len(Tail(s))

\* char::to_lowercase on the characters the model uses.
ToLowerChar(c) ==
    IF c \in AsciiUpper
    THEN LET i == CHOOSE k \in 1..Len(UpperStr) : SubSeq(UpperStr, k, k) = c
         IN  SubSeq(LowerStr, i, i)
    ELSE IF c = "É" THEN "é" ELSE c

RECURSIVE to_lowercase(_)
to_lowercase(s) ==
    IF s = "" THEN "" ELSE ToLowerChar(Head(s)) \o to_lowercase(Tail(s))

starts_with_m(s, p) == Len(p) = Len(s) /\ s = p

starts_with(s, p) == Len(p) <= Len(s) /\ SubSeq(s, 1, Len(p)) = p

RECURSIVE Rep(_, _)
Rep(c, n) == IF n = 0 THEN "" ELSE c \o Rep(c, n - 1)

RECURSIVE StringsOver(_, _)
StringsOver(alphabet, n) ==
    IF n = 0 THEN {""}
    ELSE LET shorter == StringsOver(alphabet, n - 1)
         IN  shorter \cup { s \o c : s \in shorter, c \in alphabet }

(***************************************************************************)
(* Results and the error taxonomy (core/error.rs).                         *)
(***************************************************************************)
OkUnit == [tag |-> "Ok"]
Err(e) == [tag |-> "Err", error |-> e]
NoResult == [tag |-> "None"]

NoSource == <<>>

InvalidProjectName(name, reason) ==
    [variant |-> "InvalidProjectName", name |-> name, reason |-> reason]

ProjectAlreadyExists(name, path) ==
    [variant |-> "ProjectAlreadyExists", name |-> name, path |-> path]

UnsupportedPythonVersion(version) ==
    [variant |-> "UnsupportedPythonVersion", version |-> version]

NotImplemented(feature) ==
    [variant |-> "NotImplemented", feature |-> feature]

internal(message) == [variant |-> "Internal", message |-> message]

(***************************************************************************)
(* validation::validate_project_name                                       *)
(***************************************************************************)
MaxNameLen == 50

ReservedWords == {"test", "tests", "lib", "src", "build", "dist"}

ReasonEmpty == "Name cannot be empty"
ReasonTooLong == "Name is too long (maximum 50 characters)"
ReasonPattern ==
    "Only letters, numbers, hyphens and underscores. Must start with letter"
ReasonReserved(name) == "'" \o name \o "' is a reserved word"

IsTooLong_m(name) == Utf8Len(name) >= MaxNameLen

IsTooLong(name) == Utf8Len(name) > MaxNameLen

\* [a-zA-Z0-9_-]*$
RECURSIVE MatchTail(_)
MatchTail(s) ==
    \/ s = ""
    \/ /\ s # ""
       /\ Head(s) \in AsciiLetter \cup AsciiDigit \cup {"_", "-"}
       /\ MatchTail(Tail(s))

\* ^[a-zA-Z][a-zA-Z0-9_-]*$
is_match(s) == s # "" /\ Head(s) \in AsciiLetter /\ MatchTail(Tail(s))

IsReserved_m(name) == name \in ReservedWords

IsReserved(name) == to_lowercase(name) \in ReservedWords

validate_project_name(name) ==
    IF name = "" THEN Err(InvalidProjectName(name, ReasonEmpty))
    ELSE IF IsTooLong(name) THEN Err(InvalidProjectName(name, ReasonTooLong))
    ELSE IF ~is_match(name) THEN Err(InvalidProjectName(name, ReasonPattern))
    ELSE IF IsReserved(name)
         THEN Err(InvalidProjectName(name, ReasonReserved(name)))
    ELSE OkUnit

(***************************************************************************)
(* validation::validate_python_version                                     *)
(***************************************************************************)
valid_versions == {"3.8", "3.9", "3.10", "3.11", "3.12"}

validate_python_version(version) ==
    IF ~(\E v \in valid_versions : starts_with(version, v))
    THEN Err(UnsupportedPythonVersion(version))
    ELSE OkUnit

(***************************************************************************)
(* The remaining variants of PyForgeError.  A causal chain is the sequence *)
(* of the Display texts of the errors reached by following source(): the   *)
(* head is the attached source error and the source of an element is the   *)
(* next element.                                                           *)
(***************************************************************************)
FileError(message, source) ==
    [variant |-> "FileError", message |-> message, source |-> source]

DirectoryNotFound(path) == [variant |-> "DirectoryNotFound", path |-> path]

PermissionDenied(path, reason) ==
    [variant |-> "PermissionDenied", path |-> path, reason |-> reason]

NotAPythonProject == [variant |-> "NotAPythonProject"]

InvalidConfig(file, source) ==
    [variant |-> "InvalidConfig", file |-> file, source |-> source]

CommandFailed(command, code) ==
    [variant |-> "CommandFailed", command |-> command, code |-> code]

CommandNotFound(command) ==
    [variant |-> "CommandNotFound", command |-> command]

CommandTimeout(command, timeout) ==
    [variant |-> "CommandTimeout", command |-> command, timeout |-> timeout]

TemplateNotFound(template) ==
    [variant |-> "TemplateNotFound", template |-> template]

NetworkError(message, source) ==
    [variant |-> "NetworkError", message |-> message, source |-> source]

DownloadFailed(url, status) ==
    [variant |-> "DownloadFailed", url |-> url, status |-> status]

ParseError(file_type, message) ==
    [variant |-> "ParseError", file_type |-> file_type, message |-> message]

InvalidJson(file, message) ==
    [variant |-> "InvalidJson", file |-> file, message |-> message]

InvalidToml(file, message) ==
    [variant |-> "InvalidToml", file |-> file, message |-> message]

UserCancelled == [variant |-> "UserCancelled"]

Variants ==
    {"FileError", "DirectoryNotFound", "PermissionDenied",
     "ProjectAlreadyExists", "NotAPythonProject", "InvalidConfig",
     "CommandFailed", "CommandNotFound", "CommandTimeout",
     "InvalidProjectName", "UnsupportedPythonVersion", "TemplateNotFound",
     "NetworkError", "DownloadFailed", "ParseError", "InvalidJson",
     "InvalidToml", "Internal", "UserCancelled", "NotImplemented"}

\* The Display implementation derived from the #[error("...")] attributes.
Message(e) ==
    CASE e.variant = "FileError" -> "File error: " \o e.message
      [] e.variant = "DirectoryNotFound" ->
            "Directory '" \o e.path \o "' not found"
      [] e.variant = "PermissionDenied" ->
            "Cannot write to '" \o e.path \o "': " \o e.reason
      [] e.variant = "ProjectAlreadyExists" ->
            "Project '" \o e.name \o "' already exists at '" \o e.path \o "'"
      [] e.variant = "NotAPythonProject" ->
            "No valid Python project detected in current directory"
      [] e.variant = "InvalidConfig" ->
            "Invalid configuration file: " \o e.file
      [] e.variant = "CommandFailed" ->
            "Command '" \o e.command \o "' failed with exit code "
                \o ToString(e.code)
      [] e.variant = "CommandNotFound" ->
            "Command not found: '" \o e.command \o "'"
      [] e.variant = "CommandTimeout" ->
            "Timeout executing: '" \o e.command \o "' (expected "
                \o ToString(e.timeout) \o "s)"
      [] e.variant = "InvalidProjectName" ->
            "Invalid project name: '" \o e.name \o "'. " \o e.reason
      [] e.variant = "UnsupportedPythonVersion" ->
            "Unsupported Python version: " \o e.version
      [] e.variant = "TemplateNotFound" ->
            "Template '" \o e.template \o "' not found"
      [] e.variant = "NetworkError" -> "Network error: " \o e.message
      [] e.variant = "DownloadFailed" ->
            "Failed to download from '" \o e.url \o "': " \o e.status
      [] e.variant = "ParseError" ->
            "Error parsing " \o e.file_type \o ": " \o e.message
      [] e.variant = "InvalidJson" ->
            "Invalid JSON in '" \o e.file \o "': " \o e.message
      [] e.variant = "InvalidToml" ->
            "Invalid TOML in '" \o e.file \o "': " \o e.message
      [] e.variant = "Internal" -> "Internal error: " \o e.message
      [] e.variant = "UserCancelled" -> "Operation cancelled by user"
      [] e.variant = "NotImplemented" ->
            "Feature not implemented: " \o e.feature

\* Error::source as derived from the #[source] attributes.
Source(e) ==
    IF e.variant \in {"FileError", "InvalidConfig", "NetworkError"}
    THEN e.source
    ELSE NoSource

is_recoverable_m(e) == e.variant \in {"NetworkError", "CommandTimeout"}

is_recoverable(e) ==
    e.variant \in {"NetworkError", "CommandTimeout", "UserCancelled"}

exit_code_m(e) ==
    CASE e.variant = "UserCancelled" -> 130
      [] e.variant = "CommandNotFound" -> 127
      [] e.variant = "PermissionDenied" -> 126
      [] e.variant = "FileError" -> 2
      [] e.variant = "InvalidProjectName" -> 64
      [] e.variant = "NotAPythonProject" -> 64
      [] OTHER -> 1

exit_code(e) ==
    CASE e.variant = "UserCancelled" -> 130
      [] e.variant = "CommandNotFound" -> 127
      [] e.variant = "PermissionDenied" -> 126
      [] e.variant = "FileError" -> 2
      [] e.variant = "InvalidProjectName" -> 64
      [] e.variant = "NotAPythonProject" -> 65
      [] OTHER -> 1

ErrorLine(e) == "[x] Error: " \o Message(e)

CausedBy == "Caused by:"

SuggestionPrefix == "[bulb] Suggestion: "

\* The loop of display_error that prints the causal chain.
WalkChain_m(source) ==
    IF source = <<>> THEN <<>> ELSE << "  - " \o Head(source) >>

RECURSIVE WalkChain(_)
WalkChain(source) ==
    IF source = <<>> THEN <<>>
    ELSE << "  - " \o Head(source) >> \o WalkChain(Tail(source))

\* The lines display_error writes to the error stream.
display_error(e) ==
    CASE e.variant = "ProjectAlreadyExists" ->
            << ErrorLine(e),
               SuggestionPrefix \o "rm -rf " \o e.path
                   \o " && pyforge init " \o e.name >>
      [] e.variant = "NotAPythonProject" ->
            << ErrorLine(e),
               SuggestionPrefix
                   \o "Run 'pyforge init <name>' to create a new project" >>
      [] e.variant = "CommandNotFound" ->
            << ErrorLine(e),
               SuggestionPrefix \o "Install " \o e.command
                   \o " or make sure it's in your PATH" >>
      [] e.variant = "InvalidProjectName" ->
            << ErrorLine(e),
               SuggestionPrefix \o "Names must be valid Python package names",
               "   Valid examples: my_project, awesome-tool, PyProject2024" >>
      [] OTHER ->
            << ErrorLine(e) >>
                \o (IF Source(e) # NoSource
                    THEN << CausedBy >> \o WalkChain(Source(e))
                    ELSE <<>>)

(***************************************************************************)
(* The command line (cli/args.rs).  A command line either fails to parse   *)
(* (clap's error text is kept) or yields no subcommand, init <name> or     *)
(* build.  The flags --verbose, --file and --template are parsed but never *)
(* read by the code and are left out.                                      *)
(***************************************************************************)
NoCommand == [kind |-> "none", name |-> "", clap |-> ""]
InitCommand(name) == [kind |-> "init", name |-> name, clap |-> ""]
BuildCommand == [kind |-> "build", name |-> "", clap |-> ""]
BadArgs(text) == [kind |-> "bad", name |-> "", clap |-> text]
UnknownArgs == [kind |-> "unknown", name |-> "", clap |-> ""]

ProgNames ==
    {"my_project", "ok", "Test", "test", "TESTS", "Lib", "sRc", "build",
     "dIsT", "", "bad!", "9lives", Rep("a", MaxNameLen + 1)}

FsNames == {"my_project", "Test", "bad!"}

ClapErrors == {"error: unrecognized subcommand 'frobnicate'"}

ArgsSet ==
    {NoCommand, BuildCommand}
        \cup { InitCommand(n) : n \in ProgNames }
        \cup { BadArgs(t) : t \in ClapErrors }

NoOutput == [fn |-> "none"]

(***************************************************************************)
(* core/utils.rs                                                           *)
(***************************************************************************)
WelcomeBanner ==
    << "",
       "",
       "    ____        ______                    ",
       "   / __ \\__  __/ ____/___  _________ ____ ",
       "  / /_/ / / / / /_  / __ \\/ ___/ __ `/ _ \\",
       " / ____/ /_/ / __/ / /_/ / /  / /_/ /  __/",
       "/_/    \\__, /_/    \\____/_/   \\__, /\\___/ ",
       "      /____/                /____/       ",
       "    ",
       "Welcome to PyForge!",
       "PyForge is a blazing fast, flexible, and user-friendly tool for building Python projects.",
       "Get started by running 'pyforge --help'.",
       "Happy coding! [rocket]" >>

(***************************************************************************)
(* cli/commands/init.rs                                                    *)
(***************************************************************************)
\* Path::new(name).exists() in a current directory holding the entries dir.
PathExists(name, dir) == name \in dir

InitEarlyLines(name) ==
    << "[rocket] Creating project: " \o name,
       "Project created successfully" >>

InitLateLines(name) ==
    << "[rocket] Creating project: " \o name,
       "[check] Project '" \o name \o "' created successfully!" >>

\* init::run: the lines it prints and the result it returns.
init_run(name, dir) ==
    LET validated == validate_project_name(name)
    IN  IF validated.tag = "Err"
        THEN [out |-> InitEarlyLines(name), ret |-> validated]
        ELSE IF ~(~PathExists(name, dir))
        THEN [out |-> InitEarlyLines(name),
              ret |-> Err(ProjectAlreadyExists(name, name))]
        ELSE [out |-> InitEarlyLines(name) \o InitLateLines(name),
              ret |-> OkUnit]

\* build::run is a placeholder: it finishes, or reports that it does nothing.
build_run == {OkUnit, Err(NotImplemented("build"))}

(***************************************************************************)
(* main.rs                                                                 *)
(***************************************************************************)
LogEntry(status) ==
    [fs |-> fs, args |-> args, result |-> result, stdout |-> stdout,
     stderr |-> stderr, status |-> status]

HandlerStatus_m(e) == 1

HandlerStatus(e) == exit_code(e)

Init ==
    /\ fs \in SUBSET FsNames
    /\ args = UnknownArgs
    /\ pc = "shell"
    /\ result = NoResult
    /\ stdout = <<>>
    /\ stderr = <<>>
    /\ exitStatus = <<>>
    /\ attempts = 0
    /\ log = <<>>
    /\ input = ""
    /\ output = NoOutput

\* The shell starts the program in the current directory.
Start(a) ==
    /\ pc \in {"shell", "exited"}
    /\ Len(log) < MaxRuns
    /\ args' = a
    /\ pc' = "parse"
    /\ result' = NoResult
    /\ stdout' = <<>>
    /\ stderr' = <<>>
    /\ exitStatus' = <<>>
    /\ attempts' = 0
    /\ UNCHANGED <<fs, log, input, output>>

\* run: Cli::parse() with the error mapped to Internal.
CliParse ==
    /\ pc = "parse"
    /\ IF args.kind = "bad"
       THEN /\ result' =
                Err(internal("Error parsing arguments: " \o args.clap))
            /\ pc' = "returned"
       ELSE /\ result' = result
            /\ pc' = "match"
    /\ UNCHANGED <<args, fs, stdout, stderr, exitStatus, attempts, log,
                   input, output>>

\* run: no subcommand.
PrintWelcome ==
    /\ pc = "match"
    /\ args.kind = "none"
    /\ stdout' = stdout \o WelcomeBanner
    /\ result' = OkUnit
    /\ pc' = "returned"
    /\ UNCHANGED <<args, fs, stderr, exitStatus, attempts, log, input,
                   output>>

\* run: execute_command(Commands::Init).
ExecuteInit ==
    /\ pc = "match"
    /\ args.kind = "init"
    /\ LET r == init_run(args.name, fs)
       IN  /\ stdout' = stdout \o r.out
           /\ result' = r.ret
    /\ attempts' = attempts + 1
    /\ pc' = "returned"
    /\ UNCHANGED <<args, fs, stderr, exitStatus, log, input, output>>

\* run: execute_command(Commands::Build).
ExecuteBuild ==
    /\ pc = "match"
    /\ args.kind = "build"
    /\ result' \in build_run
    /\ attempts' = attempts + 1
    /\ pc' = "returned"
    /\ UNCHANGED <<args, fs, stdout, stderr, exitStatus, log, input, output>>

\* main: error.display_error().
MainDisplay ==
    /\ pc = "returned"
    /\ result.tag = "Err"
    /\ stderr' = stderr \o display_error(result.error)
    /\ pc' = "displayed"
    /\ UNCHANGED <<args, fs, result, stdout, exitStatus, attempts, log,
                   input, output>>

\* main: std::process::exit(error.exit_code()).
MainExit ==
    /\ pc = "displayed"
    /\ exitStatus' = << HandlerStatus(result.error) >>
    /\ pc' = "exited"
    /\ log' = Append(log, LogEntry(exitStatus'))
    /\ UNCHANGED <<args, fs, result, stdout, stderr, attempts, input,
                   output>>

\* main returns after run() returned Ok.
MainReturn ==
    /\ pc = "returned"
    /\ result.tag = "Ok"
    /\ exitStatus' = << 0 >>
    /\ pc' = "exited"
    /\ log' = Append(log, LogEntry(exitStatus'))
    /\ UNCHANGED <<args, fs, result, stdout, stderr, attempts, input,
                   output>>

Next ==
    \/ \E a \in ArgsSet : Start(a)
    \/ CliParse
    \/ PrintWelcome
    \/ ExecuteInit
    \/ ExecuteBuild
    \/ MainDisplay
    \/ MainExit
    \/ MainReturn

Spec == Init /\ [][Next]_vars

(***************************************************************************)
(* The top-level handler applied to every error value of the taxonomy:    *)
(* the state is the one in which run() has just returned the error.        *)
(***************************************************************************)
SampleTexts == {"demo", "my project"}
SampleCodes == {1, 137}
CauseTexts == {"disk full", "os error 2"}

RECURSIVE ChainsUpTo(_)
ChainsUpTo(n) ==
    IF n = 0 THEN {<<>>}
    ELSE LET shorter == ChainsUpTo(n - 1)
         IN  shorter \cup { Append(c, t) : c \in shorter, t \in CauseTexts }

Chains == ChainsUpTo(MaxChain)

ErrorValues ==
    { FileError(m, c) : m \in SampleTexts, c \in Chains }
        \cup { DirectoryNotFound(p) : p \in SampleTexts }
        \cup { PermissionDenied(p, r) : p \in SampleTexts, r \in SampleTexts }
        \cup { ProjectAlreadyExists(n, p) :
                   n \in SampleTexts, p \in SampleTexts }
        \cup { NotAPythonProject }
        \cup { InvalidConfig(f, c) :
                   f \in SampleTexts, c \in Chains \ {NoSource} }
        \cup { CommandFailed(c, k) : c \in SampleTexts, k \in SampleCodes }
        \cup { CommandNotFound(c) : c \in SampleTexts }
        \cup { CommandTimeout(c, k) : c \in SampleTexts, k \in SampleCodes }
        \cup { InvalidProjectName(n, r) :
                   n \in SampleTexts, r \in SampleTexts }
        \cup { UnsupportedPythonVersion(v) : v \in SampleTexts }
        \cup { TemplateNotFound(t) : t \in SampleTexts }
        \cup { NetworkError(m, c) : m \in SampleTexts, c \in Chains }
        \cup { DownloadFailed(u, s) : u \in SampleTexts, s \in SampleTexts }
        \cup { ParseError(f, m) : f \in SampleTexts, m \in SampleTexts }
        \cup { InvalidJson(f, m) : f \in SampleTexts, m \in SampleTexts }
        \cup { InvalidToml(f, m) : f \in SampleTexts, m \in SampleTexts }
        \cup { internal(m) : m \in SampleTexts }
        \cup { UserCancelled }
        \cup { NotImplemented(f) : f \in SampleTexts }

InitErr ==
    /\ fs = {}
    /\ args = UnknownArgs
    /\ pc = "returned"
    /\ result \in { Err(e) : e \in ErrorValues }
    /\ stdout = <<>>
    /\ stderr = <<>>
    /\ exitStatus = <<>>
    /\ attempts = 1
    /\ log = <<>>
    /\ input = ""
    /\ output = NoOutput

\* A caller asks whether the error run() returned is recoverable.
IsRecoverableCall ==
    /\ pc = "returned"
    /\ result.tag = "Err"
    /\ output = NoOutput
    /\ output' = [fn |-> "is_recoverable", arg |-> result.error,
                  ret |-> is_recoverable(result.error)]
    /\ UNCHANGED <<args, fs, pc, result, stdout, stderr, exitStatus,
                   attempts, log, input>>

NextErr == Next \/ IsRecoverableCall

SpecErr == InitErr /\ [][NextErr]_vars

(***************************************************************************)
(* The validators applied to bounded sets of strings.                      *)
(***************************************************************************)
NameAlphabet == {"a", "T", "7", "-", "_", "!", "é"}

NameStems ==
    StringsOver(NameAlphabet, MaxShort)
        \cup ReservedWords
        \cup {"my_project", "Test", "TESTS", "Lib", "sRc", "Build", "dIsT",
              "tests1", "test-", "awesome-tool", "PyProject2024", "É"}

NameInputs ==
    { stem \o Rep(c, n) :
          stem \in NameStems, c \in {"a", "-", "é"}, n \in 0..MaxPad }

VersionAlphabet == {"0", "1", "2", "3", "8", "."}

VersionInputs ==
    StringsOver(VersionAlphabet, MaxVerLen)
        \cup {"2.7", "3.7", "3.9", "3.9.18", "3.11.2", "3.12.0", "3.13",
              "13.8", "v3.8", " 3.10", "3.100", "python3.8"}

InitVal ==
    /\ fs = {}
    /\ args = UnknownArgs
    /\ pc = "shell"
    /\ result = NoResult
    /\ stdout = <<>>
    /\ stderr = <<>>
    /\ exitStatus = <<>>
    /\ attempts = 0
    /\ log = <<>>
    /\ input \in NameInputs \cup VersionInputs
    /\ output = NoOutput

ValidateProjectNameCall ==
    /\ output = NoOutput
    /\ output' = [fn |-> "validate_project_name", arg |-> input,
                  ret |-> validate_project_name(input)]
    /\ UNCHANGED <<args, fs, pc, result, stdout, stderr, exitStatus,
                   attempts, log, input>>

ValidatePythonVersionCall ==
    /\ output = NoOutput
    /\ output' = [fn |-> "validate_python_version", arg |-> input,
                  ret |-> validate_python_version(input)]
    /\ UNCHANGED <<args, fs, pc, result, stdout, stderr, exitStatus,
                   attempts, log, input>>

NextVal == ValidateProjectNameCall \/ ValidatePythonVersionCall

SpecVal == InitVal /\ [][NextVal]_vars

(***************************************************************************)
(* Vocabulary of the properties.                                           *)
(***************************************************************************)
CharAt(s, i) == SubSeq(s, i, i)

SameCharIgnoringCase(c, d) ==
    \/ c = d
    \/ \E k \in 1..Len(LowerStr) :
           {c, d} = {CharAt(LowerStr, k), CharAt(UpperStr, k)}

EqualsIgnoringCase(s, w) ==
    /\ Len(s) = Len(w)
    /\ \A i \in 1..Len(w) : SameCharIgnoringCase(CharAt(s, i), CharAt(w, i))

ReservedIgnoringCase(s) == \E w \in ReservedWords : EqualsIgnoringCase(s, w)

NameChars == AsciiLetter \cup AsciiDigit \cup {"-", "_"}

FitsPattern(s) ==
    /\ Len(s) >= 1
    /\ CharAt(s, 1) \in AsciiLetter
    /\ \A i \in 1..Len(s) : CharAt(s, i) \in NameChars

NameIsValid(s) ==
    /\ Len(s) >= 1
    /\ Len(s) <= 50
    /\ FitsPattern(s)
    /\ ~ReservedIgnoringCase(s)

Contains(s, sub) ==
    \E k \in 1..(Len(s) - Len(sub) + 1) : SubSeq(s, k, k + Len(sub) - 1) = sub

ReportsCreated(out) ==
    \E i \in 1..Len(out) : Contains(out[i], "created successfully")

IsErrorHeader(line) == starts_with(line, "[x] Error:")

ErrorHeaders(lines) == { i \in 1..Len(lines) : IsErrorHeader(lines[i]) }

GuidedVariants ==
    {"ProjectAlreadyExists", "NotAPythonProject", "CommandNotFound",
     "InvalidProjectName"}

SpecialExitCodes ==
    [UserCancelled |-> 130, CommandNotFound |-> 127, PermissionDenied |-> 126,
     FileError |-> 2, InvalidProjectName |-> 64, NotAPythonProject |-> 65]

ExpectedExitCode(variant) ==
    IF variant \in DOMAIN SpecialExitCodes THEN SpecialExitCodes[variant]
    ELSE 1

\* C1: the exit status the handler passes to exit() depends on the variant
\* of the error alone: 130, 127, 126, 2, 64, 65 for the six special variants
\* and 1 for every other variant, whatever the fields hold.
C1_ExitCodeTable ==
    (pc = "exited" /\ result.tag = "Err") =>
        /\ result.error.variant \in Variants
        /\ exitStatus = << ExpectedExitCode(result.error.variant) >>

C1_Witness ==
    /\ pc = "exited"
    /\ result.tag = "Err"
    /\ result.error.variant = "PermissionDenied"
    /\ result.error.path = "my project"
    /\ exitStatus = << 126 >>

\* C2: from an empty directory the first `init my_project` succeeds and
\* reports success, and the second one fails with
\* ProjectAlreadyExists{name: "my_project", path: "my_project"}, exit code 1.
C2_SecondInitFails ==
    (/\ Len(log) >= 2
     /\ log[1].fs = {}
     /\ log[1].args = InitCommand("my_project")
     /\ log[2].args = InitCommand("my_project"))
        => /\ log[1].result.tag = "Ok"
           /\ ReportsCreated(log[1].stdout)
           /\ log[2].result.tag = "Err"
           /\ log[2].result.error.variant = "ProjectAlreadyExists"
           /\ log[2].result.error.name = "my_project"
           /\ log[2].result.error.path = "my_project"
           /\ log[2].status = << 1 >>

\* C3: init validates the name first (InvalidProjectName), then checks for
\* an existing entry (ProjectAlreadyExists{name, path: name}), reports
\* success only in the remaining case, and a failing run never reports that
\* the project was created.
C3_InitOutcome ==
    (pc \in {"returned", "displayed", "exited"} /\ args.kind = "init") =>
        /\ ~NameIsValid(args.name) =>
               /\ result.tag = "Err"
               /\ result.error.variant = "InvalidProjectName"
        /\ (NameIsValid(args.name) /\ args.name \in fs) =>
               /\ result.tag = "Err"
               /\ result.error.variant = "ProjectAlreadyExists"
               /\ result.error.name = args.name
               /\ result.error.path = args.name
        /\ (NameIsValid(args.name) /\ args.name \notin fs) =>
               /\ result.tag = "Ok"
               /\ ReportsCreated(stdout)
        /\ result.tag = "Err" => ~ReportsCreated(stdout)

\* C4: validate_project_name succeeds exactly for the names of 1 to 50
\* characters that start with an ASCII letter, hold only ASCII letters,
\* digits, hyphens and underscores and are no reserved word in any letter
\* case; every other string fails with InvalidProjectName carrying the name.
C4_ValidNames ==
    output.fn = "validate_project_name" =>
        IF NameIsValid(output.arg)
        THEN output.ret.tag = "Ok"
        ELSE /\ output.ret.tag = "Err"
             /\ output.ret.error.variant = "InvalidProjectName"
             /\ output.ret.error.name = output.arg

C4_Witness ==
    /\ output.fn = "validate_project_name"
    /\ Len(output.arg) = 50
    /\ output.ret.tag = "Ok"

\* C5: the reason of the InvalidProjectName is that of the first failing
\* check in the order empty, longer than 50 characters, pattern mismatch,
\* reserved word, and a name of at most 50 characters is never reported as
\* too long.
C5_FirstFailingCheck ==
    (output.fn = "validate_project_name" /\ output.ret.tag = "Err") =>
        /\ output.ret.error.reason =
               IF Len(output.arg) = 0 THEN ReasonEmpty
               ELSE IF Len(output.arg) > 50 THEN ReasonTooLong
               ELSE IF ~FitsPattern(output.arg) THEN ReasonPattern
               ELSE ReasonReserved(output.arg)
        /\ Len(output.arg) <= 50 => output.ret.error.reason # ReasonTooLong

\* C6: an error returned by argument parsing or by a subcommand is rendered
\* exactly once, by the top-level handler and before the process exits, and
\* the exit status is exit_code of that error; a run without error renders
\* nothing and exits with 0, and the run without subcommand prints the
\* welcome banner.
C6_SingleHandler ==
    /\ pc \in {"parse", "match", "returned"} =>
           /\ stderr = <<>>
           /\ exitStatus = <<>>
    /\ pc = "displayed" =>
           /\ result.tag = "Err"
           /\ exitStatus = <<>>
           /\ ErrorHeaders(stderr) = {1}
           /\ stderr[1] = ErrorLine(result.error)
    /\ pc = "exited" =>
           /\ result.tag \in {"Ok", "Err"}
           /\ result.tag = "Err" =>
                  /\ ErrorHeaders(stderr) = {1}
                  /\ stderr[1] = ErrorLine(result.error)
                  /\ exitStatus = << exit_code(result.error) >>
           /\ result.tag = "Ok" =>
                  /\ stderr = <<>>
                  /\ exitStatus = << 0 >>
           /\ args.kind = "none" =>
                  /\ result.tag = "Ok"
                  /\ stdout = WelcomeBanner
           /\ args.kind = "bad" =>
                  /\ result.tag = "Err"
                  /\ result.error.variant = "Internal"

C6_Witness ==
    /\ pc = "exited"
    /\ args.kind = "init"
    /\ result.tag = "Err"
    /\ result.error.variant = "InvalidProjectName"
    /\ ErrorHeaders(stderr) = {1}
    /\ exitStatus = << 64 >>

\* C7: `init <name>` with a name that is a reserved word in any letter case
\* fails with InvalidProjectName whose reason names the word, and exits with
\* code 64, whether or not an entry of that name exists.
C7_ReservedName ==
    (pc = "exited" /\ args.kind = "init" /\ ReservedIgnoringCase(args.name))
        => /\ result.tag = "Err"
           /\ result.error.variant = "InvalidProjectName"
           /\ result.error.name = args.name
           /\ result.error.reason = "'" \o args.name \o "' is a reserved word"
           /\ Contains(result.error.reason, args.name)
           /\ exitStatus = << 64 >>

C7_Witness ==
    /\ pc = "exited"
    /\ args = InitCommand("Test")
    /\ "Test" \in fs
    /\ result.tag = "Err"
    /\ exitStatus = << 64 >>

HasSupportedPrefix(v) ==
    /\ Len(v) >= 3
    /\ SubSeq(v, 1, 2) = "3."
    /\ \/ CharAt(v, 3) \in {"8", "9"}
       \/ /\ Len(v) >= 4
          /\ CharAt(v, 3) = "1"
          /\ CharAt(v, 4) \in {"0", "1", "2"}

\* C8: validate_python_version succeeds if and only if the version begins
\* with 3.8, 3.9, 3.10, 3.11 or 3.12, and otherwise fails with
\* UnsupportedPythonVersion carrying the given string unchanged.
C8_SupportedVersions ==
    output.fn = "validate_python_version" =>
        IF HasSupportedPrefix(output.arg)
        THEN output.ret.tag = "Ok"
        ELSE /\ output.ret.tag = "Err"
             /\ output.ret.error.variant = "UnsupportedPythonVersion"
             /\ output.ret.error.version = output.arg

C8_Witness ==
    /\ output.fn = "validate_python_version"
    /\ output.arg = "3.11.2"
    /\ output.ret.tag = "Ok"

RendersAs(e, lines) ==
    /\ Len(lines) >= 1
    /\ lines[1] = "[x] Error: " \o Message(e)
    /\ IF e.variant \in GuidedVariants
       THEN /\ Len(lines) >= 2
            /\ starts_with(lines[2], "[bulb] Suggestion:")
            /\ \A i \in 1..Len(lines) :
                   /\ lines[i] # "Caused by:"
                   /\ ~starts_with(lines[i], "  - ")
       ELSE IF Source(e) = <<>>
       THEN Len(lines) = 1
       ELSE /\ Len(lines) = Len(Source(e)) + 2
            /\ lines[2] = "Caused by:"
            /\ \A i \in 1..Len(Source(e)) :
                   lines[i + 2] = "  - " \o Source(e)[i]

\* C9: rendering an error writes to the error stream only and does not end
\* the process; it writes the error line first, then a suggestion and no
\* causal chain for the four variants with guidance, and for the other
\* variants the 'Caused by:' section with every error of the chain once and
\* in order, exactly when a source is attached.
C9_Rendering ==
    [][(pc = "returned" /\ pc' = "displayed") =>
           /\ stdout' = stdout
           /\ exitStatus' = <<>>
           /\ Len(stderr') >= Len(stderr)
           /\ SubSeq(stderr', 1, Len(stderr)) = stderr
           /\ RendersAs(result.error,
                        SubSeq(stderr', Len(stderr) + 1, Len(stderr')))]_vars

C9_Witness ==
    /\ pc = "displayed"
    /\ result.tag = "Err"
    /\ result.error.variant = "FileError"
    /\ Len(result.error.source) = 2
    /\ Len(stderr) = 4
    /\ stdout = <<>>

FatalVariants ==
    {"FileError", "DirectoryNotFound", "PermissionDenied",
     "ProjectAlreadyExists", "NotAPythonProject", "InvalidConfig",
     "CommandFailed", "CommandNotFound", "InvalidProjectName",
     "UnsupportedPythonVersion", "TemplateNotFound", "DownloadFailed",
     "ParseError", "InvalidJson", "InvalidToml", "Internal",
     "NotImplemented"}

\* C10: is_recoverable is true for exactly NetworkError, CommandTimeout and
\* UserCancelled and false for every other variant, whatever the fields
\* hold, and no run executes its command again after an error.
C10_Recoverable ==
    /\ output.fn = "is_recoverable" =>
           /\ output.ret = TRUE <=>
                  output.arg.variant \in
                      {"NetworkError", "CommandTimeout", "UserCancelled"}
           /\ output.ret = FALSE <=> output.arg.variant \in FatalVariants
    /\ attempts <= 1

C10_Witness ==
    /\ output.fn = "is_recoverable"
    /\ output.arg.variant = "UserCancelled"
    /\ output.ret = TRUE
    /\ pc = "exited"
    /\ Len(log) = 1
    /\ attempts = 1

====
